---- MODULE Spec2Model ----
(***************************************************************************)
(* A model of src/src/docx-preview.ts: the DOM compatibility shim          *)
(* (initXmlDom), the tree normalizer (handleXmlNode) and the asynchronous  *)
(* pipeline (renderToHtmlAsync / renderToHtmlElementAsync / renderAsync).  *)
(*                                                                         *)
(* Strings are sequences of one-character strings, so that join(),         *)
(* kebabCase() and Number.prototype.toString() are computed, not assumed.  *)
(* A nullable JavaScript value is Null (the empty tuple) or Some(v).       *)
(***************************************************************************)
EXTENDS Integers, Sequences, FiniteSets, TLC

VARIABLES
    IS_BROWSER,   \* line 6: typeof window !== "undefined"
    heap,         \* every DOM node allocated so far, indexed by identity
    docs,         \* number of documents created so far (createDocument)
    proto,        \* own properties of the prototype patched by initXmlDom
    inits,        \* number of initXmlDom invocations so far
    threw,        \* TRUE once an initXmlDom invocation has thrown
    proto0,       \* the prototype before the first initXmlDom invocation
    proto1,       \* the prototype as the first initXmlDom invocation left it
    pc,           \* per call: the stage the call is suspended in
    api,          \* per call: "text" (renderToHtmlAsync) or "element"
    data,         \* per call: the input handed to the call
    root,         \* per call: the root element the call created (0: none)
    rdoc,         \* per call: the document renderDocument created (0: none)
    cur,          \* per call: the element the renderer is working on
    rpos,         \* per call: next step of the renderer
    log,          \* per call: the stages entered, in order
    visited,      \* per call: nodes handleXmlNode was called on, in order
    fault,        \* per call: the failure the external stage rejected with
    outcome,      \* per call: how the promise settled
    input,        \* normalizer harness: the tree before normalization
    after1,       \* normalizer harness: the tree after the first pass
    passes        \* normalizer harness: handleXmlNode(root) runs so far

vars == <<IS_BROWSER, heap, docs, proto, inits, threw, proto0, proto1, pc, api, data,
          root, rdoc, cur, rpos, log, visited, fault, outcome, input, after1, passes>>

----------------------------------------------------------------------------
(* JavaScript values *)

Null == <<>>
Some(v) == <<v>>

\* JavaScript truthiness of a nullable string: null, undefined and "" are falsy.
TruthyStr(m) == m # Null /\ m[1] # <<>>

\* JavaScript truthiness of a nullable object (array, plain object): only
\* null/undefined are falsy; an empty array or object is truthy.
TruthyObj(m) == m # Null

UpperChars == {"A","B","C","D","E","F","G","H","I","J","K","L","M",
               "N","O","P","Q","R","S","T","U","V","W","X","Y","Z"}

toLowerCase(ch) ==
    CASE ch = "A" -> "a" [] ch = "B" -> "b" [] ch = "C" -> "c" [] ch = "D" -> "d"
      [] ch = "E" -> "e" [] ch = "F" -> "f" [] ch = "G" -> "g" [] ch = "H" -> "h"
      [] ch = "I" -> "i" [] ch = "J" -> "j" [] ch = "K" -> "k" [] ch = "L" -> "l"
      [] ch = "M" -> "m" [] ch = "N" -> "n" [] ch = "O" -> "o" [] ch = "P" -> "p"
      [] ch = "Q" -> "q" [] ch = "R" -> "r" [] ch = "S" -> "s" [] ch = "T" -> "t"
      [] ch = "U" -> "u" [] ch = "V" -> "v" [] ch = "W" -> "w" [] ch = "X" -> "x"
      [] ch = "Y" -> "y" [] ch = "Z" -> "z" [] OTHER -> ch

KebabChar(ch) == IF ch \in UpperChars THEN <<"-", toLowerCase(ch)>> ELSE <<ch>>

RECURSIVE ReplaceUpper(_)
\* String.prototype.replace(/[A-Z]/g, char => `-${char.toLowerCase()}`):
\* every match is rewritten, the other characters are copied.
ReplaceUpper(s) ==
    IF s = <<>> THEN <<>> ELSE KebabChar(Head(s)) \o ReplaceUpper(Tail(s))

\* Faulty variant: only uppercase letters after the first character are rewritten.
kebabCase_InternalOnly(property) ==
    IF property = <<>> THEN <<>>
    ELSE <<Head(property)>> \o ReplaceUpper(Tail(property))

\* lines 93-95
kebabCase(property) == ReplaceUpper(property)

RECURSIVE join(_, _)
\* Array.prototype.join on an array of strings
join(arr, sep) ==
    IF arr = <<>> THEN <<>>
    ELSE IF Len(arr) = 1 THEN arr[1]
    ELSE arr[1] \o sep \o join(Tail(arr), sep)

Digit(d) ==
    CASE d = 0 -> "0" [] d = 1 -> "1" [] d = 2 -> "2" [] d = 3 -> "3"
      [] d = 4 -> "4" [] d = 5 -> "5" [] d = 6 -> "6" [] d = 7 -> "7"
      [] d = 8 -> "8" [] d = 9 -> "9"

RECURSIVE toString(_)
\* Number.prototype.toString() of a non-negative integer
toString(n) == IF n < 10 THEN <<Digit(n)>> ELSE toString(n \div 10) \o <<Digit(n % 10)>>

DigitChars == {"0","1","2","3","4","5","6","7","8","9"}

DigitVal(ch) == CHOOSE d \in 0..9 : Digit(d) = ch

RECURSIVE NumVal(_)
NumVal(s) == IF s = <<>> THEN 0 ELSE NumVal(SubSeq(s, 1, Len(s) - 1)) * 10 + DigitVal(s[Len(s)])

\* A property key that is a canonical array index: Object.keys lists these
\* first, in ascending numeric order.
IsArrayIndex(key) ==
    /\ key # <<>>
    /\ \A i \in 1..Len(key) : key[i] \in DigitChars
    /\ (Len(key) > 1 => key[1] # "0")
    /\ Len(key) <= 9     \* below 2^32 - 1; the keys drawn here are short

RECURSIVE SortByIndex(_)
\* ascending numeric order of the array-index keys (keys are unique)
SortByIndex(entries) ==
    IF entries = <<>> THEN <<>>
    ELSE LET m == CHOOSE i \in 1..Len(entries) :
                    \A j \in 1..Len(entries) : NumVal(entries[i].key) <= NumVal(entries[j].key)
             rest == [k \in 1..(Len(entries) - 1) |->
                        IF k < m THEN entries[k] ELSE entries[k + 1]]
         IN <<entries[m]>> \o SortByIndex(rest)

IsIndexEntry(e) == IsArrayIndex(e.key)
IsNamedEntry(e) == ~IsArrayIndex(e.key)

\* Object.keys of a plain object held as its entries in creation order.
ObjectKeys(obj) ==
    LET ordered == SortByIndex(SelectSeq(obj, IsIndexEntry))
                   \o SelectSeq(obj, IsNamedEntry)
    IN [i \in 1..Len(ordered) |-> ordered[i].key]

\* obj[key]
Lookup(obj, key) == obj[CHOOSE i \in 1..Len(obj) : obj[i].key = key].value

----------------------------------------------------------------------------
(* The DOM: nodes live in `heap', a function from node identities to       *)
(* nodes.  A node is identified by the document that created it and its    *)
(* serial number among the nodes of that document.                         *)

ELEMENT_NODE == 1
TEXT_NODE == 3

\* doc.createElement(tag): no attributes, an empty child list, no shadow field
NewElement(tag, doc) ==
    [nodeType |-> ELEMENT_NODE, tagName |-> tag, data |-> <<>>,
     ownerDocument |-> doc, attributes |-> <<>>, childNodes |-> Some(<<>>),
     className |-> Null, _classList |-> Null, innerHTML |-> Null,
     _style |-> Null, rowSpan |-> 0, colSpan |-> 0, src |-> Null]

\* doc.createTextNode(text): character data, no child list
NewText(text, doc) ==
    [nodeType |-> TEXT_NODE, tagName |-> "#text", data |-> text,
     ownerDocument |-> doc, attributes |-> <<>>, childNodes |-> Null,
     className |-> Null, _classList |-> Null, innerHTML |-> Null,
     _style |-> Null, rowSpan |-> 0, colSpan |-> 0, src |-> Null]

\* the identity of the next node document doc creates
FreshNode(h, doc) ==
    doc * 100 + Cardinality({n \in DOMAIN h : h[n].ownerDocument = doc}) + 1

\* the heap with a newly created node in it
AddNode(h, id, node) == (id :> node) @@ h

HasAttribute(node, name) == \E i \in 1..Len(node.attributes) : node.attributes[i].name = name

GetAttribute(node, name) ==
    node.attributes[CHOOSE i \in 1..Len(node.attributes) : node.attributes[i].name = name].value

\* element.setAttribute(name, value): replaces the value of an attribute the
\* element has, appends the attribute otherwise
SetAttribute(node, name, value) ==
    [node EXCEPT !.attributes =
        IF HasAttribute(node, name)
        THEN [i \in 1..Len(node.attributes) |->
                IF node.attributes[i].name = name
                THEN [name |-> name, value |-> value] ELSE node.attributes[i]]
        ELSE Append(node.attributes, [name |-> name, value |-> value])]

\* lines 140-142
isElement(value) == value.nodeType = ELEMENT_NODE

\* lines 144-146
isTableCell(value) == value.tagName = "td"

\* lines 148-150
isImage(value) == value.tagName = "img"

\* lines 181-183: the classList getter the shim installs
GetClassList(node) == IF TruthyObj(node._classList) THEN node._classList[1] ELSE <<>>

\* lines 170-172: the style getter the shim installs
GetStyle(node) == IF TruthyObj(node._style) THEN node._style[1] ELSE <<>>

----------------------------------------------------------------------------
(* The normalizer, handleXmlNode (lines 97-138), rule by rule.  Each rule   *)
(* maps the heap to the heap after the rule has run on node n.              *)

\* lines 99-102
ApplyClassName(h, n) ==
    IF TruthyStr(h[n].className)
    THEN [h EXCEPT ![n] = [SetAttribute(@, "class", h[n].className[1])
                             EXCEPT !.className = Null]]
    ELSE h

\* Faulty variant: the token list is written only when no class attribute
\* is there yet, so the class name wins when both are set.
ApplyClassList_ClassNameWins(h, n) ==
    IF TruthyObj(h[n]._classList)
    THEN [h EXCEPT ![n] = [(IF HasAttribute(@, "class") THEN @
                            ELSE SetAttribute(@, "class", join(GetClassList(h[n]), <<" ">>)))
                             EXCEPT !._classList = Null]]
    ELSE h

\* lines 103-106: the test is JavaScript truthiness of _classList, which an
\* empty array passes
ApplyClassList(h, n) ==
    IF TruthyObj(h[n]._classList)
    THEN [h EXCEPT ![n] = [SetAttribute(@, "class", join(GetClassList(h[n]), <<" ">>))
                             EXCEPT !._classList = Null]]
    ELSE h

\* Faulty variant: the text node is created but innerHTML is not cleared.
ApplyInnerHTML_KeepValue(h, n) ==
    IF TruthyStr(h[n].innerHTML)
    THEN LET textNode == FreshNode(h, h[n].ownerDocument)
         IN AddNode([h EXCEPT ![n].childNodes = Some(Append(@[1], textNode))],
                    textNode, NewText(h[n].innerHTML[1], h[n].ownerDocument))
    ELSE h

\* Faulty variant: the text node is inserted before the existing children.
ApplyInnerHTML_Prepend(h, n) ==
    IF TruthyStr(h[n].innerHTML)
    THEN LET textNode == FreshNode(h, h[n].ownerDocument)
         IN AddNode([h EXCEPT ![n].childNodes = Some(<<textNode>> \o @[1]),
                              ![n].innerHTML = Null],
                    textNode, NewText(h[n].innerHTML[1], h[n].ownerDocument))
    ELSE h

\* lines 107-111
ApplyInnerHTML(h, n) ==
    IF TruthyStr(h[n].innerHTML)
    THEN LET textNode == FreshNode(h, h[n].ownerDocument)
         IN AddNode([h EXCEPT ![n].childNodes = Some(Append(@[1], textNode)),
                              ![n].innerHTML = Null],
                    textNode, NewText(h[n].innerHTML[1], h[n].ownerDocument))
    ELSE h

\* lines 113-115
StyleDeclarations(node) ==
    LET keys == ObjectKeys(GetStyle(node))
    IN [i \in 1..Len(keys) |->
            kebabCase(keys[i]) \o <<":", " ">> \o Lookup(GetStyle(node), keys[i])]

\* lines 112-118: the test is JavaScript truthiness of _style, which an empty
\* object passes
ApplyStyle(h, n) ==
    IF TruthyObj(h[n]._style)
    THEN [h EXCEPT ![n] = [SetAttribute(@, "style", join(StyleDeclarations(h[n]), <<";", " ">>))
                             EXCEPT !._style = Null]]
    ELSE h

WriteRowSpan(node) ==
    IF node.rowSpan # 0 THEN SetAttribute(node, "rowspan", toString(node.rowSpan)) ELSE node

WriteColSpan(node) ==
    IF node.colSpan # 0 THEN SetAttribute(node, "colspan", toString(node.colSpan)) ELSE node

\* Faulty variant: the image rule is not an else-branch of the table-cell rule
\* and does not test the tag.
ApplyTagRules_NoTagTest(h, n) ==
    LET cell == IF isTableCell(h[n]) THEN WriteColSpan(WriteRowSpan(h[n])) ELSE h[n]
    IN IF TruthyStr(cell.src)
       THEN [h EXCEPT ![n] = [SetAttribute(cell, "src", cell.src[1]) EXCEPT !.src = Null]]
       ELSE [h EXCEPT ![n] = cell]

\* lines 119-130
ApplyTagRules(h, n) ==
    IF isTableCell(h[n])
    THEN [h EXCEPT ![n] = WriteColSpan(WriteRowSpan(@))]
    ELSE IF isImage(h[n]) /\ TruthyStr(h[n].src)
    THEN [h EXCEPT ![n] = [SetAttribute(@, "src", h[n].src[1]) EXCEPT !.src = Null]]
    ELSE h

\* lines 98-131: the rules in the order the function applies them
FixupElement(h, n) ==
    ApplyTagRules(ApplyStyle(ApplyInnerHTML(ApplyClassList(ApplyClassName(h, n), n), n), n), n)

RECURSIVE handleXmlNode(_, _), HandleChildNodes(_, _, _)
\* lines 97-138.  st is [heap, visited]: the heap, and the nodes the function
\* has been called on so far, in call order.
handleXmlNode(st, node) ==
    LET fixed == [heap |-> IF isElement(st.heap[node])
                           THEN FixupElement(st.heap, node) ELSE st.heap,
                  visited |-> Append(st.visited, node)]
    IN IF fixed.heap[node].childNodes # Null
       THEN HandleChildNodes(fixed, node, 1)
       ELSE fixed

\* lines 134-136: the loop re-reads childNodes.length at every iteration
HandleChildNodes(st, node, i) ==
    IF i > Len(st.heap[node].childNodes[1]) THEN st
    ELSE HandleChildNodes(handleXmlNode(st, st.heap[node].childNodes[1][i]), node, i + 1)

----------------------------------------------------------------------------
(* Inputs of the normalizer: the trees a renderer can leave behind.         *)

MaxTokens == 2      \* longest class-token list drawn
MaxEntries == 2     \* most entries of a style mapping drawn
MaxSet == 2         \* most shadow fields populated on the element under test

Tags == {"div", "td", "img"}
ClassNames == {Null, Some(<<>>), Some(<<"c">>)}
Tokens == {<<"x">>, <<"y", "z">>}
Markups == {Null, Some(<<>>), Some(<<"H", "&", "<">>)}
StyleKeys == {<<"z", "I">>, <<"M", "o", "z">>, <<"2">>, <<"1", "0">>}
StyleValues == {<<"0">>}
Spans == {0, 2, 12}
Sources == {Null, Some(<<"s">>)}

SeqsUpTo(S, n) == UNION {[1..k -> S] : k \in 0..n}

ClassLists == {Null} \cup {Some(l) : l \in SeqsUpTo(Tokens, MaxTokens)}

\* plain objects: entries in creation order, no key twice
StyleObjects ==
    {o \in SeqsUpTo([key : StyleKeys, value : StyleValues], MaxEntries) :
        \A i, j \in 1..Len(o) : o[i].key = o[j].key => i = j}

Styles == {Null} \cup {Some(o) : o \in StyleObjects}

Populated(e) ==
    (IF e.className # Null THEN 1 ELSE 0) + (IF e._classList # Null THEN 1 ELSE 0)
    + (IF e.innerHTML # Null THEN 1 ELSE 0) + (IF e._style # Null THEN 1 ELSE 0)
    + (IF e.rowSpan # 0 THEN 1 ELSE 0) + (IF e.colSpan # 0 THEN 1 ELSE 0)
    + (IF e.src # Null THEN 1 ELSE 0)

\* the element under test: every tag with every combination of at most
\* MaxSet populated shadow fields
Profiles ==
    {e \in [nodeType : {ELEMENT_NODE}, tagName : Tags, data : {<<>>},
            ownerDocument : {0}, attributes : {<<>>}, childNodes : {Some(<<>>)},
            className : ClassNames, _classList : ClassLists, innerHTML : Markups,
            _style : Styles, rowSpan : Spans, colSpan : Spans, src : Sources] :
        Populated(e) <= MaxSet}

\* a second element, with a field of every rule populated
Kid ==
    [NewElement("td", 0) EXCEPT !._classList = Some(<<<<"k">>>>), !.rowSpan = 2,
                                !.innerHTML = Some(<<"i">>), !.src = Some(<<"u">>),
                                !.attributes = <<[name |-> "id", value |-> <<"k">>],
                                                 [name |-> "rowspan", value |-> <<"9">>]>>]

WithChildren(e, kids) == [e EXCEPT !.childNodes = Some(kids)]

\* the shapes drawn: the nodes of one document, node 1 the root
Tree(shape, e) ==
    CASE shape = 1 -> <<e>>
      [] shape = 2 -> <<WithChildren(NewElement("div", 0), <<3, 2>>), e, NewText(<<"t">>, 0)>>
      [] shape = 3 -> <<WithChildren(NewElement("div", 0), <<2>>), WithChildren(e, <<3>>), Kid>>
      [] shape = 4 -> <<WithChildren(NewElement("div", 0), <<2, 3>>), e, Kid>>

Shapes == 1..4

\* the element under test in a tree of the given shape
Focus(h) == IF Len(h) = 1 THEN 1 ELSE 2

HarnessTrees == {Tree(shape, e) : shape \in Shapes, e \in Profiles}

----------------------------------------------------------------------------
(* State shared by the specifications                                       *)

PropNames == {"firstElementChild", "style", "classList"}
MaxCalls == 2
Calls == 1..MaxCalls

IdlePipeline ==
    /\ pc = [c \in Calls |-> "idle"]
    /\ api = [c \in Calls |-> "none"]
    /\ data = [c \in Calls |-> 0]
    /\ root = [c \in Calls |-> 0]
    /\ rdoc = [c \in Calls |-> 0]
    /\ cur = [c \in Calls |-> 0]
    /\ rpos = [c \in Calls |-> 0]
    /\ log = [c \in Calls |-> <<>>]
    /\ visited = [c \in Calls |-> <<>>]
    /\ fault = [c \in Calls |-> "none"]
    /\ outcome = [c \in Calls |-> [kind |-> "pending"]]

pipelineVars == <<pc, api, data, root, rdoc, cur, rpos, log, visited, fault, outcome>>
shimVars == <<proto, inits, threw, proto0, proto1>>
harnessVars == <<input, after1, passes>>

----------------------------------------------------------------------------
(* The shim, initXmlDom (lines 152-189).  `proto' maps each property name   *)
(* to the own property the prototype has under that name.                   *)

Absent == [def |-> "absent", by |-> 0, configurable |-> FALSE]

\* an own property that was there before the module was loaded
Native(configurable) == [def |-> "native", by |-> 0, configurable |-> configurable]

\* the accessor the k-th invocation defines: defineProperty's descriptor
\* names no `configurable', so the property is not configurable
Shim(k) == [def |-> "shim", by |-> k, configurable |-> FALSE]

CleanProto == [p \in PropNames |-> Absent]

hasOwnProperty(p, name) == p[name] # Absent

\* Object.defineProperty(proto, name, {get, set}) by invocation k, with a
\* getter that is a new function: defines an absent property, redefines a
\* configurable one, throws a TypeError on a non-configurable one.
\* st is [proto, threw]; a throw ends the invocation.
DefineProperty(st, name, k) ==
    IF hasOwnProperty(st.proto, name) /\ ~st.proto[name].configurable
    THEN [st EXCEPT !.threw = TRUE]
    ELSE [st EXCEPT !.proto[name] = Shim(k)]

\* Faulty variant: no hasOwnProperty test.
InstallProperty_Unguarded(st, name, k) ==
    IF st.threw THEN st ELSE DefineProperty(st, name, k)

\* lines 160-166, 168-177, 179-188: one guarded definition
InstallProperty(st, name, k) ==
    IF st.threw \/ hasOwnProperty(st.proto, name) THEN st
    ELSE DefineProperty(st, name, k)

\* lines 152-189
initXmlDom(st, browser, k) ==
    IF browser THEN st
    ELSE InstallProperty(
             InstallProperty(
                 InstallProperty(st, "firstElementChild", k), "style", k), "classList", k)

\* the prototype after module initialisation (line 204) on the headless path
ShimmedProto == initXmlDom([proto |-> CleanProto, threw |-> FALSE], FALSE, 1).proto

MaxInits == 3

InitShim ==
    /\ IS_BROWSER \in BOOLEAN
    /\ proto \in [PropNames -> {Absent, Native(TRUE), Native(FALSE)}]
    /\ proto0 = proto
    /\ proto1 = proto
    /\ inits = 0
    /\ threw = FALSE
    /\ heap = <<>>
    /\ docs = 0
    /\ input = <<>>
    /\ after1 = <<>>
    /\ passes = 0
    /\ IdlePipeline

\* one invocation of initXmlDom; line 157 creates a document
InvokeInitXmlDom ==
    /\ inits < MaxInits
    /\ ~threw
    /\ LET st == initXmlDom([proto |-> proto, threw |-> FALSE], IS_BROWSER, inits + 1)
       IN /\ proto' = st.proto
          /\ threw' = st.threw
          /\ proto1' = IF inits = 0 THEN st.proto ELSE proto1
    /\ inits' = inits + 1
    /\ docs' = IF IS_BROWSER THEN docs ELSE docs + 1
    /\ UNCHANGED <<IS_BROWSER, heap, proto0, pipelineVars, harnessVars>>

NextShim == InvokeInitXmlDom

SpecShim == InitShim /\ [][NextShim]_vars

\* C4: installing the shim is idempotent and overwrites nothing: after any
\* number of invocations the prototype is as the first invocation left it, on
\* the headless path it owns firstElementChild, style and classList, a
\* property it owned before keeps its definition, no invocation throws, and
\* on the browser path nothing changes.
C4_ShimIdempotent ==
    inits >= 1 =>
        /\ proto = proto1
        /\ ~threw
        /\ \A name \in PropNames : hasOwnProperty(proto0, name) => proto[name] = proto0[name]
        /\ ~IS_BROWSER => \A name \in PropNames : hasOwnProperty(proto, name)
        /\ ~IS_BROWSER => \A name \in PropNames :
                              ~hasOwnProperty(proto0, name) => proto[name] = Shim(1)
        /\ IS_BROWSER => proto = proto0

C4_Witness ==
    /\ inits = MaxInits
    /\ ~IS_BROWSER
    /\ proto0 = [CleanProto EXCEPT !["style"] = Native(TRUE)]
    /\ proto = [p \in PropNames |-> IF p = "style" THEN Native(TRUE) ELSE Shim(1)]
    /\ ~threw

----------------------------------------------------------------------------
(* SpecNorm: handleXmlNode applied to a tree, and applied again.           *)

InitNorm ==
    /\ IS_BROWSER = FALSE
    /\ input \in HarnessTrees
    /\ heap = input
    /\ after1 = <<>>
    /\ passes = 0
    /\ docs = 2
    /\ proto = ShimmedProto
    /\ inits = 1
    /\ threw = FALSE
    /\ proto0 = CleanProto
    /\ proto1 = ShimmedProto
    /\ IdlePipeline

\* handleXmlNode(root) on the tree as rendered
NormalizeFirst ==
    /\ passes = 0
    /\ heap' = handleXmlNode([heap |-> heap, visited |-> <<>>], 1).heap
    /\ after1' = heap'
    /\ passes' = 1
    /\ UNCHANGED <<IS_BROWSER, docs, input, shimVars, pipelineVars>>

\* handleXmlNode(root) once more, nothing repopulated in between
NormalizeAgain ==
    /\ passes = 1
    /\ heap' = handleXmlNode([heap |-> heap, visited |-> <<>>], 1).heap
    /\ passes' = 2
    /\ UNCHANGED <<IS_BROWSER, docs, input, after1, shimVars, pipelineVars>>

NextNorm == NormalizeFirst \/ NormalizeAgain

SpecNorm == InitNorm /\ [][NextNorm]_vars

----------------------------------------------------------------------------
(* Properties of the normalizer, checked under SpecNorm.  `input' is the    *)
(* tree before the first pass; its nodes keep their identities in `heap'.   *)

InputElements == {n \in DOMAIN input : isElement(input[n])}

SameAttribute(a, b, name) ==
    /\ HasAttribute(a, name) <=> HasAttribute(b, name)
    /\ HasAttribute(a, name) => GetAttribute(a, name) = GetAttribute(b, name)

AttributeIs(node, name, value) ==
    HasAttribute(node, name) /\ GetAttribute(node, name) = value

RECURSIVE TotalLen(_)
TotalLen(L) == IF L = <<>> THEN 0 ELSE Len(Head(L)) + TotalLen(Tail(L))

\* where token i starts in the tokens of L written one after the other with
\* one character between neighbours
Offset(L, i) == TotalLen(SubSeq(L, 1, i - 1)) + (i - 1)

\* v is the tokens of L in list order with exactly one space between neighbours
SpaceSeparated(v, L) ==
    /\ Len(v) = TotalLen(L) + Len(L) - 1
    /\ \A i \in 1..Len(L) :
        /\ SubSeq(v, Offset(L, i) + 1, Offset(L, i) + Len(L[i])) = L[i]
        /\ i > 1 => v[Offset(L, i)] = " "

\* C5: for every non-empty class-token list L on an element, normalizing
\* the element sets its class attribute to the tokens of L joined by single
\* spaces in list order and leaves no token list on the node; a class name set
\* on the same element does not win, and is cleared too.
C5_ClassListJoined ==
    passes >= 1 =>
        \A n \in InputElements :
            (input[n]._classList # Null /\ input[n]._classList[1] # <<>>) =>
                /\ HasAttribute(heap[n], "class")
                /\ SpaceSeparated(GetAttribute(heap[n], "class"), input[n]._classList[1])
                /\ heap[n]._classList = Null
                /\ TruthyStr(input[n].className) => heap[n].className = Null

C5_Witness ==
    /\ passes = 1
    /\ input[Focus(input)]._classList = Some(<<<<"x">>, <<"y", "z">>>>)
    /\ input[Focus(input)].className = Some(<<"c">>)
    /\ AttributeIs(heap[Focus(input)], "class", <<"x", " ", "y", "z">>)
    /\ heap[Focus(input)].className = Null

RECURSIVE HyphenateInternal(_, _)
\* the key with a hyphen before every uppercase letter after position `from',
\* that letter lower-cased, every other character unchanged
HyphenateInternal(key, from) ==
    IF key = <<>> THEN <<>>
    ELSE (IF from <= 0 /\ Head(key) \in UpperChars
          THEN <<"-", toLowerCase(Head(key))>> ELSE <<Head(key)>>)
         \o HyphenateInternal(Tail(key), from - 1)

RECURSIVE Declarations(_, _, _)
\* "name: value" of the entries of obj taken in the order `order', joined by "; "
Declarations(obj, order, skip) ==
    IF order = <<>> THEN <<>>
    ELSE HyphenateInternal(obj[Head(order)].key, skip) \o <<":", " ">> \o obj[Head(order)].value
         \o (IF Len(order) > 1 THEN <<";", " ">> ELSE <<>>)
         \o Declarations(obj, Tail(order), skip)

InsertionOrder(obj) == [i \in 1..Len(obj) |-> i]

OrdersOf(n) == {f \in [1..n -> 1..n] : \A i, j \in 1..n : f[i] = f[j] => i = j}

\* the order in which JavaScript enumerates the own keys of a plain object:
\* canonical array indices first, ascending; then the other keys as created
EnumerationOrder(obj) ==
    CHOOSE f \in OrdersOf(Len(obj)) :
        \A i, j \in 1..Len(obj) : i < j =>
            \/ IsArrayIndex(obj[f[i]].key) /\ ~IsArrayIndex(obj[f[j]].key)
            \/ /\ IsArrayIndex(obj[f[i]].key) /\ IsArrayIndex(obj[f[j]].key)
               /\ NumVal(obj[f[i]].key) < NumVal(obj[f[j]].key)
            \/ /\ ~IsArrayIndex(obj[f[i]].key) /\ ~IsArrayIndex(obj[f[j]].key)
               /\ f[i] < f[j]

HasStyleEntries(node) == node._style # Null /\ node._style[1] # <<>>

\* C6 as stated: for every non-empty style mapping the style attribute is the
\* entries "name: value" joined by "; " in insertion order, each name the key
\* with a hyphen before every internal (non-leading) uppercase letter, and
\* the mapping is cleared.
C6_AsStated ==
    passes >= 1 =>
        \A n \in InputElements :
            HasStyleEntries(input[n]) =>
                /\ AttributeIs(heap[n], "style",
                       Declarations(input[n]._style[1], InsertionOrder(input[n]._style[1]), 1))
                /\ heap[n]._style = Null

\* C6, amended: for every non-empty style mapping the style attribute is the
\* entries "name: value" joined by "; " in the order Object.keys lists the
\* keys (array-index keys first, ascending, then the others in insertion
\* order), each name the key with a hyphen before every uppercase letter A-Z,
\* a leading one included, that letter lower-cased; and the mapping is cleared.
C6_StyleAttribute ==
    passes >= 1 =>
        \A n \in InputElements :
            HasStyleEntries(input[n]) =>
                /\ AttributeIs(heap[n], "style",
                       Declarations(input[n]._style[1], EnumerationOrder(input[n]._style[1]), 0))
                /\ heap[n]._style = Null

C6_Witness ==
    /\ passes = 1
    /\ input[Focus(input)]._style =
          Some(<<[key |-> <<"M", "o", "z">>, value |-> <<"0">>],
                 [key |-> <<"2">>, value |-> <<"0">>]>>)
    /\ AttributeIs(heap[Focus(input)], "style",
          <<"2", ":", " ", "0", ";", " ", "-", "m", "o", "z", ":", " ", "0">>)
    /\ heap[Focus(input)]._style = Null

InputChildren(n) == IF input[n].childNodes = Null THEN <<>> ELSE input[n].childNodes[1]
Children(n) == IF heap[n].childNodes = Null THEN <<>> ELSE heap[n].childNodes[1]

\* C7: for every element with a non-empty injected-markup string s,
\* normalizing appends exactly one text child whose content is exactly s,
\* after the children the element already had, which keep their order, and
\* clears the string; normalization adds, removes or reorders no other child.
C7_InjectedMarkup ==
    passes >= 1 =>
        /\ \A n \in InputElements :
            IF TruthyStr(input[n].innerHTML)
            THEN /\ Len(Children(n)) = Len(InputChildren(n)) + 1
                 /\ SubSeq(Children(n), 1, Len(InputChildren(n))) = InputChildren(n)
                 /\ LET t == Children(n)[Len(Children(n))]
                    IN /\ t \in DOMAIN heap \ DOMAIN input
                       /\ heap[t].nodeType = TEXT_NODE
                       /\ heap[t].data = input[n].innerHTML[1]
                 /\ heap[n].innerHTML = Null
            ELSE Children(n) = InputChildren(n)
        /\ \A n \in DOMAIN input \ InputElements : heap[n] = input[n]
        /\ Cardinality(DOMAIN heap \ DOMAIN input)
              = Cardinality({n \in InputElements : TruthyStr(input[n].innerHTML)})
        /\ \A t \in DOMAIN heap \ DOMAIN input :
              Cardinality({n \in InputElements :
                              \E i \in 1..Len(Children(n)) : Children(n)[i] = t}) = 1

C7_Witness ==
    /\ passes = 1
    /\ Len(input) = 3
    /\ input[2].innerHTML = Some(<<"H", "&", "<">>)
    /\ input[2].childNodes = Some(<<3>>)
    /\ DOMAIN heap = 1..5
    /\ \E t \in 4..5 : heap[2].childNodes = Some(<<3, t>>) /\ heap[t].data = <<"H", "&", "<">>

\* s is the decimal numeral of n: digits only, no superfluous leading zero
IsDecimalOf(s, n) ==
    /\ s # <<>>
    /\ \A i \in 1..Len(s) : s[i] \in DigitChars
    /\ Len(s) > 1 => s[1] # "0"
    /\ NumVal(s) = n

\* C8: the tag rules exclude each other.  On a table cell a non-zero row span
\* is written as the decimal rowspan attribute and, independently, a non-zero
\* column span as colspan, both scalars staying as they were; on an image a
\* set source is written as the src attribute and the scalar cleared; on any
\* other tag none of rowspan, colspan and src is written.
C8_TagRules ==
    passes >= 1 =>
        \A n \in InputElements :
            /\ isTableCell(input[n]) =>
                /\ IF input[n].rowSpan # 0
                   THEN HasAttribute(heap[n], "rowspan")
                        /\ IsDecimalOf(GetAttribute(heap[n], "rowspan"), input[n].rowSpan)
                   ELSE SameAttribute(heap[n], input[n], "rowspan")
                /\ IF input[n].colSpan # 0
                   THEN HasAttribute(heap[n], "colspan")
                        /\ IsDecimalOf(GetAttribute(heap[n], "colspan"), input[n].colSpan)
                   ELSE SameAttribute(heap[n], input[n], "colspan")
                /\ heap[n].rowSpan = input[n].rowSpan
                /\ heap[n].colSpan = input[n].colSpan
                /\ SameAttribute(heap[n], input[n], "src")
                /\ heap[n].src = input[n].src
            /\ (isImage(input[n]) /\ ~isTableCell(input[n])) =>
                /\ IF TruthyStr(input[n].src)
                   THEN AttributeIs(heap[n], "src", input[n].src[1]) /\ heap[n].src = Null
                   ELSE SameAttribute(heap[n], input[n], "src")
                /\ SameAttribute(heap[n], input[n], "rowspan")
                /\ SameAttribute(heap[n], input[n], "colspan")
            /\ (~isImage(input[n]) /\ ~isTableCell(input[n])) =>
                /\ SameAttribute(heap[n], input[n], "rowspan")
                /\ SameAttribute(heap[n], input[n], "colspan")
                /\ SameAttribute(heap[n], input[n], "src")
                /\ heap[n].src = input[n].src

C8_Witness ==
    /\ passes = 1
    /\ Len(input) = 3
    /\ input[2].tagName = "td" /\ input[2].rowSpan = 12 /\ input[2].colSpan = 2
    /\ AttributeIs(heap[2], "rowspan", <<"1", "2">>)
    /\ AttributeIs(heap[2], "colspan", <<"2">>)
    /\ heap[2].rowSpan = 12
    /\ input[3].src = Some(<<"u">>) /\ heap[3].src = Some(<<"u">>)
    /\ ~HasAttribute(heap[3], "src")
    /\ AttributeIs(heap[3], "rowspan", <<"2">>)

\* the class attribute rule 1 alone leaves on a node
ClassFromClassName(n) ==
    IF TruthyStr(input[n].className)
    THEN AttributeIs(heap[n], "class", input[n].className[1])
    ELSE SameAttribute(heap[n], input[n], "class")

\* C9: the class attribute is written from the token list only when the list
\* is non-empty, and the style attribute only when the style mapping is
\* non-empty: with an empty (or absent) list the class attribute is what the
\* class-name rule left, with an empty (or absent) mapping no style attribute
\* is written.
C9_OnlyWhenNonEmpty ==
    passes >= 1 =>
        \A n \in InputElements :
            /\ (input[n]._classList = Null \/ input[n]._classList[1] = <<>>)
                  => ClassFromClassName(n)
            /\ ~HasStyleEntries(input[n]) => SameAttribute(heap[n], input[n], "style")

\* C10: a second run of the normalizer on the root, nothing repopulated in
\* between, leaves every node's attributes, children and shadow fields as the
\* first run left them, and allocates no node.
C10_Idempotent == passes = 2 => heap = after1

C10_Witness ==
    /\ passes = 2
    /\ Len(input) = 3
    /\ TruthyStr(input[2].innerHTML) /\ input[3].rowSpan = 2
    /\ DOMAIN heap = 1..5
    /\ heap = after1
    /\ after1 # input

----------------------------------------------------------------------------
(* The external collaborators.  The parser turns an input into a document  *)
(* object; the renderer walks it and populates the container through the   *)
(* DOM, one operation at a time, suspending in between.                    *)

Inputs == {"cell", "markup"}
ParseFailures == {"InputError"}
RenderFailures == {"RenderError"}

\* the DOM operations the renderer performs for a parsed document; an
\* operation acts on the element created last (the container at first)
ParsedDocument(d) ==
    CASE d = "cell" ->
            <<[op |-> "createElement", tag |-> "td"],
              [op |-> "rowSpan", value |-> 2],
              [op |-> "classList.push", value |-> <<"x">>]>>
      [] d = "markup" ->
            <<[op |-> "className", value |-> <<"c">>],
              [op |-> "innerHTML", value |-> <<"H", "&", "<">>]>>

\* one DOM operation of the renderer on element n, creating nodes in doc;
\* st is [heap, cur]
RenderOp(st, doc, op) ==
    LET h == st.heap
        n == st.cur
    IN CASE op.op = "createElement" ->
              [heap |-> AddNode([h EXCEPT ![n].childNodes = Some(Append(@[1], FreshNode(h, doc)))],
                                FreshNode(h, doc), NewElement(op.tag, doc)),
               cur |-> FreshNode(h, doc)]
         [] op.op = "className" ->
              [st EXCEPT !.heap[n].className = Some(op.value)]
         [] op.op = "classList.push" ->
              [st EXCEPT !.heap[n]._classList = Some(Append(GetClassList(h[n]), op.value))]
         [] op.op = "innerHTML" ->
              [st EXCEPT !.heap[n].innerHTML = Some(op.value)]
         [] op.op = "rowSpan" ->
              [st EXCEPT !.heap[n].rowSpan = op.value]

RECURSIVE serializeToString(_, _)
\* XMLSerializer.serializeToString, as the abstract syntax of the markup it
\* writes: tag, attributes in order, children in order; character data for
\* a text node.  Shadow fields are not part of it.
serializeToString(h, n) ==
    [tag |-> h[n].tagName, text |-> h[n].data, attributes |-> h[n].attributes,
     children |-> IF h[n].childNodes = Null THEN <<>>
                  ELSE [i \in 1..Len(h[n].childNodes[1]) |->
                            serializeToString(h, h[n].childNodes[1][i])]]

RECURSIVE outerHTML(_, _)
\* root.outerHTML of a browser element, as an uninterpreted function of the
\* element's state: tag, attributes, the properties assigned, children.
outerHTML(h, n) ==
    [tag |-> h[n].tagName, text |-> h[n].data, attributes |-> h[n].attributes,
     properties |-> <<h[n].className, h[n]._classList, h[n].innerHTML, h[n]._style,
                      h[n].rowSpan, h[n].colSpan, h[n].src>>,
     children |-> IF h[n].childNodes = Null THEN <<>>
                  ELSE [i \in 1..Len(h[n].childNodes[1]) |->
                            outerHTML(h, h[n].childNodes[1][i])]]

----------------------------------------------------------------------------
(* Spec: the pipeline.  Calls are numbered in the order they are made.     *)
(* Document 0 is the browser's `document'; call c creates document 2c - 1  *)
(* at line 86 and document 2c at line 56.                                  *)

\* Faulty variant: a root kept from the first call is handed to later calls.
CreateRoot_Cached(h, doc) ==
    IF DOMAIN h # {}
    THEN [heap |-> h, root |-> CHOOSE n \in DOMAIN h : \A m \in DOMAIN h : n <= m]
    ELSE [heap |-> AddNode(h, FreshNode(h, doc), NewElement("div", doc)),
          root |-> FreshNode(h, doc)]

\* lines 80 and 87: createElement('div') allocates a new element
CreateRoot(h, doc) ==
    [heap |-> AddNode(h, FreshNode(h, doc), NewElement("div", doc)),
     root |-> FreshNode(h, doc)]

\* Faulty variant: handleXmlNode runs on the browser path too.
NormalizeRoot_Always(h, r, browser) ==
    handleXmlNode([heap |-> h, visited |-> <<>>], r)

\* lines 79-90: what renderToHtmlElementAsync does to the root once
\* renderAsync has resolved
NormalizeRoot(h, r, browser) ==
    IF browser THEN [heap |-> h, visited |-> <<>>]
    ELSE handleXmlNode([heap |-> h, visited |-> <<>>], r)

Init ==
    /\ IS_BROWSER \in BOOLEAN
    /\ heap = <<>>
    /\ docs = IF IS_BROWSER THEN 0 ELSE 1
    /\ proto0 = CleanProto
    /\ proto = initXmlDom([proto |-> CleanProto, threw |-> FALSE], IS_BROWSER, 1).proto
    /\ proto1 = proto
    /\ inits = 1
    /\ threw = FALSE
    /\ input = <<>>
    /\ after1 = <<>>
    /\ passes = 0
    /\ IdlePipeline

nonPipelineVars == <<IS_BROWSER, shimVars, harnessVars>>

\* lines 67-73, 78-88, 61-62, 48-51: the call runs synchronously up to the
\* parser's first suspension
Begin(c, a, d) ==
    /\ pc[c] = "idle"
    /\ \A b \in Calls : b < c => pc[b] # "idle"
    /\ LET doc == IF IS_BROWSER THEN 0 ELSE 2 * c - 1
           made == CreateRoot(heap, doc)
       IN /\ heap' = made.heap
          /\ root' = [root EXCEPT ![c] = made.root]
    /\ docs' = IF IS_BROWSER THEN docs ELSE docs + 1
    /\ pc' = [pc EXCEPT ![c] = "parse"]
    /\ api' = [api EXCEPT ![c] = a]
    /\ data' = [data EXCEPT ![c] = d]
    /\ log' = [log EXCEPT ![c] = Append(@, "parse")]
    /\ UNCHANGED <<nonPipelineVars, rdoc, cur, rpos, visited, fault, outcome>>

\* lines 62-63, 53-58: the parser resolves, renderDocument creates its
\* document and renderer, the renderer starts
ParseOk(c) ==
    /\ pc[c] = "parse"
    /\ pc' = [pc EXCEPT ![c] = "render"]
    /\ docs' = docs + 1
    /\ rdoc' = [rdoc EXCEPT ![c] = 2 * c]
    /\ cur' = [cur EXCEPT ![c] = root[c]]
    /\ rpos' = [rpos EXCEPT ![c] = 1]
    /\ log' = [log EXCEPT ![c] = Append(@, "render")]
    /\ UNCHANGED <<nonPipelineVars, heap, api, data, root, visited, fault, outcome>>

\* line 50: the promise WordDocument.load returned rejects
ParseFail(c, e) ==
    /\ pc[c] = "parse"
    /\ pc' = [pc EXCEPT ![c] = "failed"]
    /\ fault' = [fault EXCEPT ![c] = e]
    /\ UNCHANGED <<nonPipelineVars, heap, docs, api, data, root, rdoc, cur, rpos, log,
                   visited, outcome>>

\* line 58: the renderer performs its next DOM operation
RenderStep(c) ==
    /\ pc[c] = "render"
    /\ rpos[c] <= Len(ParsedDocument(data[c]))
    /\ LET st == RenderOp([heap |-> heap, cur |-> cur[c]], rdoc[c],
                          ParsedDocument(data[c])[rpos[c]])
       IN /\ heap' = st.heap
          /\ cur' = [cur EXCEPT ![c] = st.cur]
    /\ rpos' = [rpos EXCEPT ![c] = @ + 1]
    /\ UNCHANGED <<nonPipelineVars, docs, pc, api, data, root, rdoc, log, visited, fault,
                   outcome>>

\* lines 58, 63-64: the renderer resolves, renderAsync returns the document
RenderOk(c) ==
    /\ pc[c] = "render"
    /\ rpos[c] > Len(ParsedDocument(data[c]))
    /\ pc' = [pc EXCEPT ![c] = "rendered"]
    /\ UNCHANGED <<nonPipelineVars, heap, docs, api, data, root, rdoc, cur, rpos, log,
                   visited, fault, outcome>>

\* line 58: the promise renderer.render returned rejects, whatever the
\* renderer has put into the container by then
RenderFail(c, e) ==
    /\ pc[c] = "render"
    /\ pc' = [pc EXCEPT ![c] = "failed"]
    /\ fault' = [fault EXCEPT ![c] = e]
    /\ UNCHANGED <<nonPipelineVars, heap, docs, api, data, root, rdoc, cur, rpos, log,
                   visited, outcome>>

\* Faulty variant: the rejection is caught and the call goes on.
Rethrow_Recover(c) ==
    /\ pc[c] = "failed"
    /\ pc' = [pc EXCEPT ![c] = "rendered"]
    /\ UNCHANGED <<nonPipelineVars, heap, docs, api, data, root, rdoc, cur, rpos, log,
                   visited, fault, outcome>>

\* lines 62, 63, 81, 88, 69, 73: no await is inside a try; the rejection
\* becomes the rejection of each enclosing async function in turn
Rethrow(c) ==
    /\ pc[c] = "failed"
    /\ pc' = [pc EXCEPT ![c] = "done"]
    /\ outcome' = [outcome EXCEPT ![c] = [kind |-> "rejected", error |-> fault[c],
                                          element |-> 0, text |-> Null]]
    /\ UNCHANGED <<nonPipelineVars, heap, docs, api, data, root, rdoc, cur, rpos, log,
                   visited, fault>>

\* lines 81-82 and 88-90: renderToHtmlElementAsync resumes, normalizes on the
\* headless path and returns the root
ResumeElement(c) ==
    /\ pc[c] = "rendered"
    /\ LET st == NormalizeRoot(heap, root[c], IS_BROWSER)
       IN /\ heap' = st.heap
          /\ visited' = [visited EXCEPT ![c] = st.visited]
          /\ log' = [log EXCEPT ![c] = IF st.visited # <<>> THEN Append(@, "normalize") ELSE @]
    /\ IF api[c] = "element"
       THEN /\ pc' = [pc EXCEPT ![c] = "done"]
            /\ outcome' = [outcome EXCEPT ![c] = [kind |-> "resolved", error |-> "none",
                                                  element |-> root[c], text |-> Null]]
       ELSE /\ pc' = [pc EXCEPT ![c] = "serialize"]
            /\ UNCHANGED outcome
    /\ UNCHANGED <<nonPipelineVars, docs, api, data, root, rdoc, cur, rpos, fault>>

\* lines 69-70 and 73-75: renderToHtmlAsync resumes and serializes the root
Serialize(c) ==
    /\ pc[c] = "serialize"
    /\ pc' = [pc EXCEPT ![c] = "done"]
    /\ log' = [log EXCEPT ![c] = Append(@, "serialize")]
    /\ outcome' = [outcome EXCEPT ![c] =
                      [kind |-> "resolved", error |-> "none", element |-> 0,
                       text |-> Some(IF IS_BROWSER THEN outerHTML(heap, root[c])
                                     ELSE serializeToString(heap, root[c]))]]
    /\ UNCHANGED <<nonPipelineVars, heap, docs, api, data, root, rdoc, cur, rpos, visited,
                   fault>>

Next ==
    \E c \in Calls :
        \/ \E a \in {"text", "element"}, d \in Inputs : Begin(c, a, d)
        \/ ParseOk(c)
        \/ \E e \in ParseFailures : ParseFail(c, e)
        \/ RenderStep(c)
        \/ RenderOk(c)
        \/ \E e \in RenderFailures : RenderFail(c, e)
        \/ Rethrow(c)
        \/ ResumeElement(c)
        \/ Serialize(c)

Spec == Init /\ [][Next]_vars

----------------------------------------------------------------------------
(* Properties of the pipeline, checked under Spec.                          *)

RECURSIVE Preorder(_, _), PreorderAll(_, _)
\* the nodes of the tree rooted at n: a node, then the trees of its children
\* from first to last
Preorder(h, n) ==
    <<n>> \o (IF h[n].childNodes = Null THEN <<>> ELSE PreorderAll(h, h[n].childNodes[1]))

PreorderAll(h, kids) ==
    IF kids = <<>> THEN <<>> ELSE Preorder(h, Head(kids)) \o PreorderAll(h, Tail(kids))

Reach(h, n) == {Preorder(h, n)[i] : i \in 1..Len(Preorder(h, n))}

IsPrefix(s, t) == Len(s) <= Len(t) /\ s = SubSeq(t, 1, Len(s))

Has(s, x) == \E i \in 1..Len(s) : s[i] = x

ExpectedStages(a, browser) ==
    <<"parse", "render">> \o (IF browser THEN <<>> ELSE <<"normalize">>)
                          \o (IF a = "text" THEN <<"serialize">> ELSE <<>>)

RenderCompleted(c) == fault[c] = "none" /\ rpos[c] > Len(ParsedDocument(data[c]))

Started == {c \in Calls : pc[c] # "idle"}

\* C1: in every call the stages occur in the order parse, render,
\* normalize, serialize.  On the headless path the normalizer runs only once
\* rendering has completed and has been called on every node of the tree
\* under the call's root, once each, before serialization starts; on the
\* browser path it is never run.
C1_StageOrder ==
    \A c \in Started :
        /\ IsPrefix(log[c], ExpectedStages(api[c], IS_BROWSER))
        /\ (pc[c] = "done" /\ outcome[c].kind = "resolved")
              => log[c] = ExpectedStages(api[c], IS_BROWSER)
        /\ IS_BROWSER => visited[c] = <<>>
        /\ (Has(log[c], "normalize") \/ visited[c] # <<>>) =>
              /\ RenderCompleted(c)
              /\ visited[c] = Preorder(heap, root[c])
        /\ (~IS_BROWSER /\ (pc[c] = "serialize" \/ Has(log[c], "serialize"))) =>
              /\ Has(log[c], "normalize")
              /\ visited[c] = Preorder(heap, root[c])

C1_Witness ==
    \E c \in Calls :
        /\ ~IS_BROWSER
        /\ pc[c] = "done" /\ api[c] = "text" /\ data[c] = "markup"
        /\ log[c] = <<"parse", "render", "normalize", "serialize">>
        /\ Len(visited[c]) = 2
        /\ visited[c][1] = root[c]
        /\ heap[visited[c][2]].nodeType = TEXT_NODE

\* no shadow field is left to project on any node under n
FullyNormalized(h, n) ==
    \A m \in Reach(h, n) :
        isElement(h[m]) =>
            /\ ~TruthyStr(h[m].className)
            /\ h[m]._classList = Null
            /\ ~TruthyStr(h[m].innerHTML)
            /\ h[m]._style = Null
            /\ isImage(h[m]) => ~TruthyStr(h[m].src)

NoStageTwice(c) == \A i, j \in 1..Len(log[c]) : log[c][i] = log[c][j] => i = j

\* C2: when the parser or the renderer fails, the call ends in a rejection
\* carrying that failure unchanged; no later stage runs and no stage runs
\* twice; a call that has completed has either been rejected, handing out no
\* element and no text, or has resolved with the completely rendered and (on
\* the headless path) normalized tree, or its serialization.
C2_FailurePropagates ==
    \A c \in Started :
        /\ NoStageTwice(c)
        /\ (pc[c] = "done") <=> (outcome[c].kind # "pending")
        /\ fault[c] # "none" =>
              /\ pc[c] \in {"failed", "done"}
              /\ ~Has(log[c], "normalize") /\ ~Has(log[c], "serialize")
              /\ visited[c] = <<>>
              /\ pc[c] = "done" =>
                    outcome[c] = [kind |-> "rejected", error |-> fault[c],
                                  element |-> 0, text |-> Null]
        /\ outcome[c].kind = "resolved" =>
              /\ RenderCompleted(c)
              /\ ~IS_BROWSER => FullyNormalized(heap, root[c])
              /\ api[c] = "element" => outcome[c].element = root[c] /\ outcome[c].text = Null
              /\ api[c] = "text" =>
                    outcome[c].text = Some(IF IS_BROWSER THEN outerHTML(heap, root[c])
                                           ELSE serializeToString(heap, root[c]))

C2_Witness ==
    \E c \in Calls :
        /\ pc[c] = "done"
        /\ data[c] = "cell" /\ rpos[c] = 3
        /\ heap[root[c]].childNodes # Some(<<>>)
        /\ fault[c] = "RenderError"
        /\ outcome[c] = [kind |-> "rejected", error |-> "RenderError",
                         element |-> 0, text |-> Null]
        /\ log[c] = <<"parse", "render">>

RECURSIVE RunScript(_, _, _)
\* the renderer's operations one after the other, nothing in between
RunScript(st, doc, ops) ==
    IF ops = <<>> THEN st ELSE RunScript(RenderOp(st, doc, Head(ops)), doc, Tail(ops))

\* what renderToHtmlAsync resolves with for input d when no other call is made
SoloOutput(d, browser) ==
    LET doc == IF browser THEN 0 ELSE 1
        r == doc * 100 + 1
        rendered == RunScript([heap |-> (r :> NewElement("div", doc)), cur |-> r], 2,
                              ParsedDocument(d)).heap
    IN IF browser THEN outerHTML(rendered, r)
       ELSE serializeToString(handleXmlNode([heap |-> rendered, visited |-> <<>>], r).heap, r)

\* the documents whose nodes occur in the tree of call c, and the document
\* its renderer was given; document 0 is the browser's
DocumentsOf(c) ==
    ({heap[n].ownerDocument : n \in Reach(heap, root[c])} \cup {rdoc[c]}) \ {0}

\* C3: calls whose stages interleave do not share state: each call has a
\* root and documents of its own, no node is reachable from the roots of two
\* calls, and the text a call resolves with is the text the same call
\* resolves with when it runs alone.
C3_NoCrossTalk ==
    /\ \A c \in Started :
          (outcome[c].kind = "resolved" /\ api[c] = "text") =>
              outcome[c].text = Some(SoloOutput(data[c], IS_BROWSER))
    /\ \A b, c \in Started :
          b # c =>
              /\ root[b] # root[c]
              /\ Reach(heap, root[b]) \cap Reach(heap, root[c]) = {}
              /\ DocumentsOf(b) \cap DocumentsOf(c) = {}

C3_Witness ==
    /\ ~IS_BROWSER
    /\ pc[1] = "render" /\ rpos[1] = 2 /\ data[1] = "cell"
    /\ pc[2] = "done" /\ api[2] = "text" /\ data[2] = "markup"
    /\ outcome[2].kind = "resolved"
    /\ outcome[2].text = Some(SoloOutput("markup", FALSE))
    /\ outcome[2].text[1].attributes = <<[name |-> "class", value |-> <<"c">>]>>
    /\ Len(outcome[2].text[1].children) = 1

====
